---- MODULE Spec2Model ----
(***************************************************************************)
(* Leader-side replication and commit core of async-raft                   *)
(* (src/async-raft/src/core/replication.rs).                               *)
(*                                                                         *)
(* The leader task owns all the state below and handles one ReplicaEvent   *)
(* per step: UpdateMatched, RevertToFollower, NeedsSnapshot, Shutdown.     *)
(* Collaborators that live outside replication.rs (the membership quorum   *)
(* query, the line-rate predicate, stream removal, storage, the client     *)
(* write path) are modelled from the written specification.                *)
(***************************************************************************)
EXTENDS Integers, Sequences, FiniteSets, TLC

\* ------------------------------------------------------------------ bounds
MaxTerm == 2
MaxIndex == 2
MaxBuilds == 1
MaxWaiters == 1
\* The unit tests call snapshot_is_within_half_of_threshold with every
\* argument from 0 to MaxArg, and with the arguments of the tests in the source.
MaxArg == 5

\* --------------------------------------------------------------- constants
\* core.id: the leader's own node id.
LeaderId == 1
\* The cluster's node ids (NodeId = u64); the leader is one of them.
NodeIds == {1, 2, 3}
\* config.line_rate_lag (a runtime tunable); see is_line_rate.
line_rate_lag == 1
\* SnapshotPolicy::LogsSinceLast(threshold).
threshold == 2

\* Option<T>: None is the empty sequence, Some(x) the one-element sequence.
None == <<>>
Some(x) == <<x>>

\* LogId { term, index }; LogId::new(0, 0) is the "no entry" sentinel.
LogId(t, i) == [term |-> t, index |-> i]

LogIds ==
    {LogId(0, 0)} \cup {LogId(t, i) : t \in 1..MaxTerm, i \in 1..MaxIndex}

\* derive(PartialOrd, Ord) on LogId: lexicographic on (term, index).
LogIdGE(a, b) ==
    \/ a.term > b.term
    \/ a.term = b.term /\ a.index >= b.index

\* The membership configurations the leader can be under: a uniform set or
\* a joint pair (C_old, C_new), as a sequence of node sets.
Memberships ==
    { <<{1, 2, 3}>>, <<{1, 2}>>, <<{1, 2}, {1, 3}>> }

\* MembershipConfig::all_nodes(): the union of the constituent sets.
all_nodes(m) == UNION {m[k] : k \in DOMAIN m}

Max(S) == CHOOSE x \in S : \A y \in S : y <= x

Restrict(f, D) == [x \in D |-> f[x]]

VARIABLES
    current_term,       \* core.current_term
    voted_for,          \* core.voted_for: Option<NodeId>
    hard_state,         \* storage: the persisted Option<(current_term, voted_for)>
    current_leader,     \* core.current_leader: Option<NodeId>
    target_state,       \* core.target_state: "Leader" | "Follower" | "Shutdown"
    last_log_id,        \* core.last_log_id
    commit_index,       \* core.commit_index
    membership,         \* core.membership.membership
    nodes,              \* NodeId -> ReplicationState (matched, repl_stream, remove_since, tx)
    awaiting_committed, \* queue of client requests, each its entry's LogId
    leader_metrics,     \* leader_metrics.replication: NodeId -> matched
    post_commit,        \* requests handed to client_request_post_commit, in order
    nonvoter_rx,        \* NodeId -> the responses delivered on the reply slot of that peer's latest AddNonVoter
    panicked,           \* the assert! of handle_update_matched fired
    current_snapshot,   \* storage: Option<index of the current snapshot's last_log_id>
    snapshot_state,     \* core.snapshot_state: Option<Snapshotting { handle, sender }>
    reply,              \* what became of the reply sender of the last NeedsSnapshot
    waiters,            \* senders subscribed to by the detached tasks still holding a reply
    compaction_forced,  \* trigger_log_compaction_if_needed(true) was called and not served yet
    builds,             \* number of snapshot builds started so far
    sent,               \* NodeId -> commit index of the UpdateCommitIndex sent to it by the last step
    call,               \* the last call a unit test made: its arguments and its result
    ev,                 \* the ReplicaEvent handled by the last step
    res                 \* that handler's result: "Ok" | "Err" | "Panic"

vars ==
    <<current_term, voted_for, hard_state, current_leader, target_state,
      last_log_id, commit_index, membership, nodes, awaiting_committed,
      leader_metrics, post_commit, nonvoter_rx, panicked, current_snapshot, snapshot_state,
      reply, waiters, compaction_forced, builds, sent, call, ev, res>>

\* The leader loop hands events to handle_replica_event only while the
\* target state is Leader; a panic (failed assert!) aborts the task.
Running == target_state = "Leader" /\ ~panicked

\* The variables only handle_needs_snapshot and the snapshot build touch.
snapshot_vars ==
    <<current_snapshot, snapshot_state, reply, waiters, compaction_forced, builds>>

\* ------------------------------------------------------- ReplicationState
\* spawn_replication_stream: the state handle of a freshly spawned stream.
\* repl_stream is the peer's command channel: whether its receiver is still
\* alive, and the commit indexes of the UpdateCommitIndex events delivered.
spawn_replication_stream(target, caller_tx) ==
    [matched |-> LogId(0, 0),
     repl_stream |-> [open |-> TRUE, rx |-> <<>>],
     remove_since |-> None,
     tx |-> caller_tx]

\* ReplicationState::is_line_rate(last_log_id, config).
is_line_rate(state, last) ==
    last.index - state.matched.index <= line_rate_lag

\* try_remove_replication(target): TRUE iff the peer is marked for removal,
\* its deadline has passed and it is no longer a member; the stream is then
\* dropped from nodes.
try_remove_replication(ns, m, target, expired) ==
    /\ ns[target].remove_since # None
    /\ expired
    /\ target \notin all_nodes(m)

\* update_leader_metrics(target, matched).
update_leader_metrics(metrics, target, matched) ==
    [p \in DOMAIN metrics \cup {target} |->
        IF p = target THEN matched ELSE metrics[p]]

\* --------------------------------------------------------- CommitCalculator
\* get_match_log_indexes: NodeId -> index, for the members whose candidate
\* LogId is of the current term.
MatchedOf(ns, last, id) ==
    IF id = LeaderId THEN last
    ELSE IF id \in DOMAIN ns THEN ns[id].matched
    ELSE LogId(0, 0)

\* Mutant: every member is put in the map, whatever the term of its LogId.
get_match_log_indexes_any_term(ns, m, last, term) ==
    [id \in all_nodes(m) |-> MatchedOf(ns, last, id).index]

get_match_log_indexes(ns, m, last, term) ==
    LET ids == {id \in all_nodes(m) : MatchedOf(ns, last, id).term = term}
    IN  [id \in ids |-> MatchedOf(ns, last, id).index]

\* quorum::majority_of(n): a strict majority of n members.
majority_of(n) == (n \div 2) + 1

\* Whether a strict majority of config's members are in map with a value >= v.
MajorityAtLeast(config, map, v) ==
    Cardinality({id \in config \cap DOMAIN map : map[id] >= v})
        >= majority_of(Cardinality(config))

\* MembershipConfig::greatest_majority_value(map), as an Option: the largest
\* value v of the map such that every constituent set has a strict majority
\* of members with map[id] >= v; None when no value does.
greatest_majority_value(m, map) ==
    LET ok == {v \in {map[id] : id \in DOMAIN map} :
                  \A k \in DOMAIN m : MajorityAtLeast(m[k], map, v)}
    IN  IF ok = {} THEN None ELSE Some(Max(ok))

\* Mutant: only the first constituent set of the membership is consulted.
calc_commit_index_first_set(ns, m, last, term, commit) ==
    LET repl_indexes == get_match_log_indexes(ns, m, last, term)
        committed == greatest_majority_value(<<m[1]>>, repl_indexes)
    IN  IF committed = None THEN commit ELSE committed[1]

\* calc_commit_index: committed.unwrap_or(commit_index).
calc_commit_index(ns, m, last, term, commit) ==
    LET repl_indexes == get_match_log_indexes(ns, m, last, term)
        committed == greatest_majority_value(m, repl_indexes)
    IN  IF committed = None THEN commit ELSE committed[1]

\* ------------------------------------------------------------------ events
Event(type, target, term, matched) ==
    [type |-> type, target |-> target, term |-> term, matched |-> matched]

NoEvent == Event("None", 0, 0, LogId(0, 0))

\* The hard state (current_term, voted_for) as save_hard_state writes it.
HardState(term, vote) == [current_term |-> term, voted_for |-> vote]

\* repl_tx.send(UpdateCommitIndex { commit_index }): delivered unless the
\* receiving stream task has ended; the error of a failed send is ignored.
repl_tx_send(state, commit) ==
    IF state.repl_stream.open
    THEN [state EXCEPT !.repl_stream.rx = Append(@, commit)]
    ELSE state

\* Mutant: the drain's range excludes the offset it was given (..offset).
DrainCount_exclusive(queue, commit) ==
    LET bad == {k \in DOMAIN queue : queue[k].index > commit}
        n == IF bad = {} THEN Len(queue)
             ELSE (CHOOSE k \in bad : \A j \in bad : k <= j) - 1
    IN  IF n = 0 THEN 0 ELSE n - 1

\* The number of requests the drain takes from the head of the queue: one
\* more than the offset of the last request of the leading run whose index is
\* <= commit (iter().enumerate().take_while(..).last()), 0 when there is none.
DrainCount(queue, commit) ==
    LET bad == {k \in DOMAIN queue : queue[k].index > commit}
    IN  IF bad = {} THEN Len(queue)
        ELSE (CHOOSE k \in bad : \A j \in bad : k <= j) - 1

\* Mutant: the assertion is gone.
matched_increments_unchecked(matched, stored) == TRUE

\* assert!(matched >= state.matched).
matched_increments(matched, stored) == LogIdGE(matched, stored)

\* Mutant: a report at commit_index itself goes on to the commit calculation (<).
returns_before_commit_strict(matched, commit) == matched.index < commit

\* Mutant: the report's term is compared in place of its index.
returns_before_commit_by_term(matched, commit) == matched.term <= commit

\* Mutant: a report one above commit_index returns early as well.
returns_before_commit_late(matched, commit) == matched.index <= commit + 1

\* if matched.index <= self.core.commit_index { ...; return Ok(()) }
returns_before_commit(matched, commit) == matched.index <= commit

\* Mutant: any different commit index is taken for a new one.
new_commit_established_differs(new_commit, commit) == new_commit # commit

\* if commit_index > self.core.commit_index.
new_commit_established(new_commit, commit) == new_commit > commit

\* Mutant: the loop over the peers ends at the first send that fails (send(..)?).
broadcast_commit_index_until_error(ns, commit) ==
    [p \in DOMAIN ns |->
        IF \E q \in DOMAIN ns : q <= p /\ ~ns[q].repl_stream.open
        THEN ns[p]
        ELSE repl_tx_send(ns[p], commit)]

\* for node in self.nodes.values() { node.repl_stream.repl_tx.send(..) }.
broadcast_commit_index(ns, commit) ==
    [p \in DOMAIN ns |-> repl_tx_send(ns[p], commit)]

\* The record of that broadcast: the commit index sent to each peer's stream.
broadcast_sends(ns, commit) == [p \in DOMAIN ns |-> commit]

\* Mutant: a pending slot is resolved by whatever report comes first.
resolves_non_voter_always(state, last) == state.tx # None

\* The non-voter reply is resolved iff the peer is line-rate and a slot is pending.
resolves_non_voter(state, last) ==
    is_line_rate(state, last) /\ state.tx # None

\* Mutant: the report of an unknown peer still reaches the metrics.
update_matched_of_unknown_peer_reported(target, matched) ==
    /\ res' = "Ok"
    /\ sent' = <<>>
    /\ leader_metrics' = update_leader_metrics(leader_metrics, target, matched)
    /\ UNCHANGED <<commit_index, nodes, awaiting_committed,
                   post_commit, nonvoter_rx, panicked>>

\* if let Some(state) = self.nodes.get_mut(&target) {..} else { return Ok(()) }:
\* the peer is not in nodes.
update_matched_of_unknown_peer(target, matched) ==
    /\ res' = "Ok"
    /\ sent' = <<>>
    /\ UNCHANGED <<commit_index, nodes, awaiting_committed,
                   leader_metrics, post_commit, nonvoter_rx, panicked>>

\* handle_update_matched(target, matched).  expired is the clock's answer to
\* try_remove_replication's deadline test.
handle_update_matched(target, matched, expired) ==
    /\ Running
    /\ UNCHANGED call
    /\ ev' = Event("UpdateMatched", target, 0, matched)
    /\ UNCHANGED <<current_term, voted_for, hard_state, current_leader,
                   target_state, last_log_id, membership, snapshot_vars>>
    /\ IF target \notin DOMAIN nodes THEN
           update_matched_of_unknown_peer(target, matched)
       ELSE IF ~matched_increments(matched, nodes[target].matched) THEN
           \* the assertion fails: the leader task panics
           /\ res' = "Panic"
           /\ panicked' = TRUE
           /\ sent' = <<>>
           /\ UNCHANGED <<commit_index, nodes, awaiting_committed,
                          leader_metrics, post_commit, nonvoter_rx>>
       ELSE
           LET st1 == [nodes[target] EXCEPT !.matched = matched]
               resolve == resolves_non_voter(st1, last_log_id)
               st2 == IF resolve THEN [st1 EXCEPT !.tx = None] ELSE st1
               nodes1 == [nodes EXCEPT ![target] = st2]
               removed == try_remove_replication(nodes1, membership, target, expired)
               nodes2 == IF removed
                         THEN Restrict(nodes1, DOMAIN nodes1 \ {target})
                         ELSE nodes1
               metrics2 == IF removed
                           THEN leader_metrics
                           ELSE update_leader_metrics(leader_metrics, target, matched)
               new_commit == calc_commit_index(nodes2, membership, last_log_id,
                                               current_term, commit_index)
               n == DrainCount(awaiting_committed, new_commit)
           IN  /\ res' = "Ok"
               /\ UNCHANGED panicked
               /\ leader_metrics' = metrics2
               /\ nonvoter_rx' =
                      IF resolve
                      THEN [nonvoter_rx EXCEPT ![target] = Append(@, st2.matched)]
                      ELSE nonvoter_rx
               /\ IF returns_before_commit(matched, commit_index) THEN
                      /\ nodes' = nodes2
                      /\ sent' = <<>>
                      /\ UNCHANGED <<commit_index, awaiting_committed, post_commit>>
                  ELSE IF ~new_commit_established(new_commit, commit_index) THEN
                      /\ nodes' = nodes2
                      /\ sent' = <<>>
                      /\ UNCHANGED <<commit_index, awaiting_committed, post_commit>>
                  ELSE
                      /\ commit_index' = new_commit
                      /\ nodes' = broadcast_commit_index(nodes2, new_commit)
                      /\ sent' = broadcast_sends(nodes2, new_commit)
                      /\ awaiting_committed' =
                             SubSeq(awaiting_committed, n + 1, Len(awaiting_committed))
                      /\ post_commit' =
                             post_commit \o SubSeq(awaiting_committed, 1, n)

\* The leader state handle_update_matched reads and writes, as one value.
LeaderCore ==
    [target_state |-> target_state, panicked |-> panicked,
     current_term |-> current_term, last_log_id |-> last_log_id,
     membership |-> membership, commit_index |-> commit_index, nodes |-> nodes,
     awaiting_committed |-> awaiting_committed, post_commit |-> post_commit,
     leader_metrics |-> leader_metrics, nonvoter_rx |-> nonvoter_rx]

\* handle_update_matched(target, matched) as a function of the leader state:
\* the state it leaves when the event is handled in state core (core itself
\* when the leader no longer runs).
update_matched(core, target, matched, expired) ==
    IF ~(core.target_state = "Leader" /\ ~core.panicked) THEN core
    ELSE IF target \notin DOMAIN core.nodes THEN core
    ELSE IF ~matched_increments(matched, core.nodes[target].matched)
    THEN [core EXCEPT !.panicked = TRUE]
    ELSE
        LET st1 == [core.nodes[target] EXCEPT !.matched = matched]
            resolve == resolves_non_voter(st1, core.last_log_id)
            st2 == IF resolve THEN [st1 EXCEPT !.tx = None] ELSE st1
            nodes1 == [core.nodes EXCEPT ![target] = st2]
            removed == try_remove_replication(nodes1, core.membership, target, expired)
            nodes2 == IF removed
                      THEN Restrict(nodes1, DOMAIN nodes1 \ {target})
                      ELSE nodes1
            core2 == [core EXCEPT
                         !.nodes = nodes2,
                         !.leader_metrics =
                             IF removed THEN @
                             ELSE update_leader_metrics(@, target, matched),
                         !.nonvoter_rx =
                             IF resolve
                             THEN [@ EXCEPT ![target] = Append(@, st2.matched)]
                             ELSE @]
            new_commit == calc_commit_index(nodes2, core.membership, core.last_log_id,
                                            core.current_term, core.commit_index)
            n == DrainCount(core.awaiting_committed, new_commit)
        IN  IF returns_before_commit(matched, core.commit_index) THEN core2
            ELSE IF ~new_commit_established(new_commit, core.commit_index) THEN core2
            ELSE [core2 EXCEPT
                     !.commit_index = new_commit,
                     !.nodes = broadcast_commit_index(nodes2, new_commit),
                     !.awaiting_committed =
                         SubSeq(@, n + 1, Len(core.awaiting_committed)),
                     !.post_commit =
                         @ \o SubSeq(core.awaiting_committed, 1, n)]

\* The clock only matters to a peer that has a removal deadline.
Clock(target) ==
    IF target \in DOMAIN nodes /\ nodes[target].remove_since # None
    THEN BOOLEAN ELSE {FALSE}

UpdateMatched ==
    \E target \in NodeIds \ {LeaderId}, matched \in LogIds :
        \E expired \in Clock(target) :
            handle_update_matched(target, matched, expired)

\* Mutant: an equal term makes the leader step down too.
revert_applies_on_equal(term, current) == term >= current

\* if term > self.core.current_term.
revert_applies(term, current) == term > current

\* Mutant: the target state is left as it is.
revert_target_state_kept == "Leader"

\* self.core.set_target_state(State::Follower).
revert_target_state == "Follower"

\* Mutant: the handler's result is unwrapped, so an error aborts the task.
on_handler_error_unwrap(was_panicked) == TRUE

\* if let Err(err) = res { tracing::error!(..) }: the error is logged and
\* the leader task goes on as it was.
on_handler_error(was_panicked) == was_panicked

\* handle_revert_to_follower(_, term).  fault is the outcome of the storage
\* write of save_hard_state: "none", or a storage error that
\* map_storage_error classes as "transient" or "fatal".
handle_revert_to_follower(target, term, fault) ==
    /\ Running
    /\ UNCHANGED call
    /\ ev' = Event("RevertToFollower", 0, term, LogId(0, 0))
    /\ sent' = <<>>
    /\ UNCHANGED <<last_log_id, commit_index, membership, nodes,
                   awaiting_committed, leader_metrics, post_commit,
                   nonvoter_rx, snapshot_vars>>
    /\ panicked' = IF revert_applies(term, current_term) /\ fault # "none"
                   THEN on_handler_error(panicked)
                   ELSE panicked
    /\ IF revert_applies(term, current_term) THEN
           \* update_current_term(term, None)
           /\ current_term' = term
           /\ voted_for' = None
           /\ IF fault = "none" THEN
                  \* save_hard_state, update_current_leader(Unknown),
                  \* set_target_state(Follower)
                  /\ hard_state' = Some(HardState(term, None))
                  /\ current_leader' = None
                  /\ target_state' = revert_target_state
                  /\ res' = "Ok"
              ELSE
                  \* save_hard_state().await? returns the mapped error
                  /\ UNCHANGED <<hard_state, current_leader>>
                  /\ target_state' =
                         IF fault = "fatal" THEN "Shutdown" ELSE target_state
                  /\ res' = "Err"
       ELSE
           /\ res' = "Ok"
           /\ UNCHANGED <<current_term, voted_for, hard_state, current_leader,
                          target_state>>

\* Reports of an index beyond every index the leader can hold: the handler
\* takes them like any other.
LogIdsAhead == {LogId(t, MaxIndex + 1) : t \in 1..MaxTerm}

UpdateMatchedAhead ==
    \E target \in NodeIds \ {LeaderId}, matched \in LogIdsAhead :
        \E expired \in Clock(target) :
            handle_update_matched(target, matched, expired)

\* The outcomes of a storage operation; one that is not reached has none.
Faults(reached) ==
    IF reached THEN {"none", "transient", "fatal"} ELSE {"none"}

RevertToFollower ==
    \E target \in NodeIds \ {LeaderId}, term \in (MaxTerm - 1)..(MaxTerm + 1) :
        \E fault \in Faults(term > current_term) :
            handle_revert_to_follower(target, term, fault)

\* ReplicaEvent::Shutdown => set_target_state(State::Shutdown); return.
Shutdown ==
    /\ Running
    /\ UNCHANGED call
    /\ ev' = Event("Shutdown", 0, 0, LogId(0, 0))
    /\ res' = "Ok"
    /\ sent' = <<>>
    /\ target_state' = "Shutdown"
    /\ UNCHANGED <<current_term, voted_for, hard_state, current_leader,
                   last_log_id, commit_index, membership, nodes,
                   awaiting_committed, leader_metrics, post_commit,
                   nonvoter_rx, panicked, snapshot_vars>>

\* ------------------------------------------------- the wider leader module
\* A client write: the entry is appended to the leader's log under the
\* current term and its request queued until commit.
ClientWrite ==
    /\ Running
    /\ last_log_id.index < MaxIndex
    /\ LET entry == LogId(current_term, last_log_id.index + 1)
       IN  /\ last_log_id' = entry
           /\ awaiting_committed' = Append(awaiting_committed, entry)
    /\ UNCHANGED call
    /\ ev' = NoEvent
    /\ res' = "Ok"
    /\ sent' = <<>>
    /\ UNCHANGED <<current_term, voted_for, hard_state, current_leader,
                   target_state, commit_index, membership, nodes,
                   leader_metrics, post_commit, nonvoter_rx, panicked, snapshot_vars>>

\* AddNonVoter: a stream is spawned for a node the leader does not replicate
\* to yet, holding the caller's reply slot.
AddNonVoter ==
    \E target \in NodeIds \ ({LeaderId} \cup DOMAIN nodes) :
        /\ Running
        /\ nonvoter_rx' = [nonvoter_rx EXCEPT ![target] = <<>>]
        /\ nodes' = [p \in DOMAIN nodes \cup {target} |->
                        IF p = target
                        THEN spawn_replication_stream(target, Some("caller"))
                        ELSE nodes[p]]
        /\ UNCHANGED call
        /\ ev' = NoEvent
        /\ res' = "Ok"
        /\ sent' = <<>>
        /\ UNCHANGED <<current_term, voted_for, hard_state, current_leader,
                       target_state, last_log_id, commit_index, membership,
                       awaiting_committed, leader_metrics, post_commit,
                       panicked, snapshot_vars>>

\* A membership change takes effect: every member but the leader is already
\* replicated to.
ChangeMembership ==
    \E m \in Memberships \ {membership} :
        /\ Running
        /\ all_nodes(m) \ {LeaderId} \subseteq DOMAIN nodes
        /\ membership' = m
        /\ UNCHANGED call
        /\ ev' = NoEvent
        /\ res' = "Ok"
        /\ sent' = <<>>
        /\ UNCHANGED <<current_term, voted_for, hard_state, current_leader,
                       target_state, last_log_id, commit_index, nodes,
                       awaiting_committed, leader_metrics, post_commit,
                       nonvoter_rx, panicked, snapshot_vars>>

\* A peer that is no longer a member is marked for removal.
SetRemoveSince ==
    \E target \in DOMAIN nodes :
        /\ Running
        /\ target \notin all_nodes(membership)
        /\ nodes[target].remove_since = None
        /\ nodes' = [nodes EXCEPT ![target].remove_since = Some("deadline")]
        /\ UNCHANGED call
        /\ ev' = NoEvent
        /\ res' = "Ok"
        /\ sent' = <<>>
        /\ UNCHANGED <<current_term, voted_for, hard_state, current_leader,
                       target_state, last_log_id, commit_index, membership,
                       awaiting_committed, leader_metrics, post_commit,
                       nonvoter_rx, panicked, snapshot_vars>>

\* A peer's replication task ends: the receiver of its command channel is gone.
StreamEnds ==
    \E target \in DOMAIN nodes :
        /\ Running
        /\ nodes[target].repl_stream.open
        /\ nodes' = [nodes EXCEPT ![target].repl_stream.open = FALSE]
        /\ UNCHANGED call
        /\ ev' = NoEvent
        /\ res' = "Ok"
        /\ sent' = <<>>
        /\ UNCHANGED <<current_term, voted_for, hard_state, current_leader,
                       target_state, last_log_id, commit_index, membership,
                       awaiting_committed, leader_metrics, post_commit,
                       nonvoter_rx, panicked, snapshot_vars>>

\* ------------------------------------------------------ SnapshotCoordinator
\* u64 arithmetic is done on a word wide enough for every argument drawn.
WordModulus == 1024

\* Mutant: the distance is a wrapping subtraction (wrapping_sub).
wrapping_sub(a, b) == (a - b) % WordModulus

\* u64::saturating_sub.
saturating_sub(a, b) == IF a >= b THEN a - b ELSE 0

\* Mutant: a snapshot exactly half the threshold behind is taken for too old (<).
snapshot_is_within_half_of_threshold_strict(snapshot_last_index, last_log_index, thresh) ==
    saturating_sub(last_log_index, snapshot_last_index) < thresh \div 2

\* Mutant: the distance is compared with the whole threshold.
snapshot_is_within_threshold(snapshot_last_index, last_log_index, thresh) ==
    saturating_sub(last_log_index, snapshot_last_index) <= thresh

\* snapshot_is_within_half_of_threshold(snapshot_last_index, last_log_index, threshold).
snapshot_is_within_half_of_threshold(snapshot_last_index, last_log_index, thresh) ==
    LET distance_from_line == saturating_sub(last_log_index, snapshot_last_index)
    IN  distance_from_line <= thresh \div 2

\* What became of a NeedsSnapshot's reply sender: "Sent" (with the snapshot's
\* last index), "Dropped", or "Held" by a detached task.
Reply(state, snapshot) == [state |-> state, snapshot |-> snapshot]

\* handle_needs_snapshot(_, tx).  fault is the outcome of
\* storage.get_current_snapshot(): "none", or a storage error that
\* map_storage_error classes as "transient" or "fatal".
handle_needs_snapshot(target, fault) ==
    /\ Running
    /\ Len(waiters) < MaxWaiters
    /\ UNCHANGED call
    /\ ev' = Event("NeedsSnapshot", 0, 0, LogId(0, 0))
    /\ sent' = <<>>
    /\ UNCHANGED <<current_term, voted_for, hard_state, current_leader,
                   last_log_id, commit_index, membership, nodes,
                   awaiting_committed, leader_metrics, post_commit,
                   nonvoter_rx, current_snapshot, builds>>
    /\ panicked' = IF fault # "none" THEN on_handler_error(panicked) ELSE panicked
    /\ IF fault # "none" THEN
           \* get_current_snapshot().await.map_err(..)? returns; tx is dropped
           /\ res' = "Err"
           /\ target_state' = IF fault = "fatal" THEN "Shutdown" ELSE target_state
           /\ reply' = Reply("Dropped", None)
           /\ UNCHANGED <<snapshot_state, waiters, compaction_forced>>
       ELSE IF /\ current_snapshot # None
               /\ snapshot_is_within_half_of_threshold(
                      current_snapshot[1], last_log_id.index, threshold) THEN
           \* tx.send(snapshot)
           /\ res' = "Ok"
           /\ reply' = Reply("Sent", current_snapshot)
           /\ UNCHANGED <<target_state, snapshot_state, waiters, compaction_forced>>
       ELSE IF snapshot_state # None THEN
           \* a build is in progress: a detached task subscribes to its sender
           \* and holds tx until it receives; snapshot_state is put back
           /\ res' = "Ok"
           /\ waiters' = Append(waiters, snapshot_state[1].sender)
           /\ reply' = Reply("Held", None)
           /\ snapshot_state' = Some([handle |-> snapshot_state[1].handle,
                                      sender |-> snapshot_state[1].sender])
           /\ UNCHANGED <<target_state, compaction_forced>>
       ELSE
           \* trigger_log_compaction_if_needed(true); tx is dropped
           /\ res' = "Ok"
           /\ compaction_forced' = TRUE
           /\ reply' = Reply("Dropped", None)
           /\ UNCHANGED <<target_state, snapshot_state, waiters>>

NeedsSnapshot ==
    \E target \in NodeIds \ {LeaderId}, fault \in {"none", "transient", "fatal"} :
        handle_needs_snapshot(target, fault)

core_vars ==
    <<current_term, voted_for, hard_state, current_leader, target_state,
      last_log_id, commit_index, membership, nodes, awaiting_committed,
      leader_metrics, post_commit, nonvoter_rx, panicked>>

\* The compaction subsystem starts a snapshot build.
BuildStarts ==
    /\ Running
    /\ snapshot_state = None
    /\ builds < MaxBuilds
    /\ builds' = builds + 1
    /\ snapshot_state' = Some([handle |-> builds + 1, sender |-> builds + 1])
    /\ compaction_forced' = FALSE
    /\ UNCHANGED call
    /\ ev' = NoEvent
    /\ res' = "Ok"
    /\ sent' = <<>>
    /\ UNCHANGED <<core_vars, current_snapshot, reply, waiters>>

\* The build task finishes: the snapshot is in storage, the completion is
\* broadcast and the sender dropped.
BuildDone ==
    /\ Running
    /\ snapshot_state # None
    /\ snapshot_state' = None
    /\ current_snapshot' = Some(commit_index)
    /\ UNCHANGED call
    /\ ev' = NoEvent
    /\ res' = "Ok"
    /\ sent' = <<>>
    /\ UNCHANGED <<core_vars, reply, waiters, compaction_forced, builds>>

\* Mutant: the detached task does not wait for the broadcast (no chan.recv().await).
Signalled_at_once(sender) == TRUE

\* Whether a subscriber of sender observes a signal or the channel's closure.
Signalled(sender) ==
    IF snapshot_state = None THEN TRUE ELSE snapshot_state[1].sender # sender

\* A detached task's chan.recv() returns, and it drops the reply it held.
WaiterWakes ==
    /\ waiters # <<>>
    /\ Signalled(Head(waiters))
    /\ waiters' = Tail(waiters)
    /\ UNCHANGED call
    /\ ev' = NoEvent
    /\ res' = "Ok"
    /\ sent' = <<>>
    /\ UNCHANGED <<core_vars, current_snapshot, snapshot_state, reply,
                   compaction_forced, builds>>

\* ------------------------------------------------------------- unit tests
\* The arguments of the tests: small ones, and those of the tests in the source.
Args == 0..MaxArg \cup {50, 100, 200, 500}

Call(snapshot_last_index, last_log_index, thresh, result) ==
    [snapshot_last_index |-> snapshot_last_index,
     last_log_index |-> last_log_index,
     threshold |-> thresh,
     result |-> result]

NoCall == Call(0, 0, 0, None)

\* test_snapshot_is_within_half_of_threshold!: one call of the function, the
\* result kept for the test's assert_eq!.
test_snapshot_is_within_half_of_threshold ==
    \E snapshot_last_index \in Args, last_log_index \in Args, thresh \in Args :
        /\ call' = Call(snapshot_last_index, last_log_index, thresh,
                        Some(snapshot_is_within_half_of_threshold(
                                 snapshot_last_index, last_log_index, thresh)))
        /\ UNCHANGED <<core_vars, snapshot_vars, sent, ev, res>>

\* ----------------------------------------------------------- specification
\* The state when the leader takes office: a stream is spawned for every
\* other member, nothing is queued, nothing has been reported.
InitLeader ==
    /\ current_term = MaxTerm
    /\ voted_for = Some(LeaderId)
    /\ hard_state = Some(HardState(current_term, Some(LeaderId)))
    /\ current_leader = Some(LeaderId)
    /\ target_state = "Leader"
    /\ last_log_id \in LogIds
    /\ last_log_id.term <= current_term
    /\ commit_index \in 0..last_log_id.index
    /\ membership \in Memberships
    /\ nodes = [p \in all_nodes(membership) \ {LeaderId} |->
                   spawn_replication_stream(p, None)]
    /\ awaiting_committed = <<>>
    /\ leader_metrics = <<>>
    /\ post_commit = <<>>
    /\ nonvoter_rx = [p \in NodeIds |-> <<>>]
    /\ panicked = FALSE
    /\ sent = <<>>
    /\ ev = NoEvent
    /\ res = "Ok"

InitSnapshot ==
    /\ call = NoCall
    /\ snapshot_state = None
    /\ reply = Reply("None", None)
    /\ waiters = <<>>
    /\ compaction_forced = FALSE
    /\ builds = 0

\* A three-member cluster; the snapshot side stays as constructed.  Peers'
\* replication tasks may end at any time.
Init ==
    /\ InitLeader
    /\ last_log_id.index <= 1
    /\ InitSnapshot
    /\ current_snapshot = None
    /\ membership = <<{1, 2, 3}>>

Next ==
    \/ UpdateMatched
    \/ RevertToFollower
    \/ Shutdown
    \/ ClientWrite
    \/ StreamEnds

Spec == Init /\ [][Next]_vars

\* A leader under the joint membership ({1, 2}, {1, 3}).
InitJoint ==
    /\ InitLeader
    /\ last_log_id.index <= 1
    /\ InitSnapshot
    /\ current_snapshot = None
    /\ membership = <<{1, 2}, {1, 3}>>

NextJoint ==
    \/ UpdateMatched
    \/ RevertToFollower
    \/ Shutdown
    \/ ClientWrite

SpecJoint == InitJoint /\ [][NextJoint]_vars

\* A two-member cluster to which node 3 is added as a non-voter, and from
\* which it may be removed again.
InitNonVoter ==
    /\ InitLeader
    /\ last_log_id.index <= 1
    /\ InitSnapshot
    /\ current_snapshot = None
    /\ membership = <<{1, 2}>>

NextNonVoter ==
    \/ UpdateMatched
    \/ ClientWrite
    \/ AddNonVoter
    \/ SetRemoveSince

SpecNonVoter == InitNonVoter /\ [][NextNonVoter]_vars

\* All four replica events in a three-member cluster whose leader took
\* office with a full log of the previous term.  Storage may hold a snapshot
\* and a snapshot build may be in progress when the leader starts.
InitAll ==
    /\ InitLeader
    /\ last_log_id = LogId(MaxTerm - 1, MaxIndex)
    /\ membership = <<{1, 2, 3}>>
    /\ current_snapshot \in {None, Some(0), Some(MaxIndex - 1), Some(MaxIndex)}
    /\ snapshot_state \in {None, Some([handle |-> 1, sender |-> 1])}
    /\ builds = IF snapshot_state = None THEN 0 ELSE 1
    /\ call = NoCall
    /\ reply = Reply("None", None)
    /\ waiters = <<>>
    /\ compaction_forced = FALSE

NextAll ==
    \/ UpdateMatched
    \/ UpdateMatchedAhead
    \/ RevertToFollower
    \/ NeedsSnapshot
    \/ Shutdown

SpecAll == InitAll /\ [][NextAll]_vars

\* The snapshot coordinator beside a running snapshot build.
NextSnapshot ==
    \/ NeedsSnapshot
    \/ BuildStarts
    \/ BuildDone
    \/ WaiterWakes

SpecSnapshot == InitAll /\ [][NextSnapshot]_vars

\* A leader whose membership, term and log stay as they are, its last entry
\* of the current term and at least every LogId a peer reports; only
\* UpdateMatched events arrive.
InitFixed ==
    /\ InitLeader
    /\ last_log_id = LogId(MaxTerm, MaxIndex)
    /\ InitSnapshot
    /\ current_snapshot = None

NextFixed == UpdateMatched

SpecFixed == InitFixed /\ [][NextFixed]_vars

\* A three-member cluster that takes client writes while its two peers
\* report, within the leader's log or ahead of it.
NextBurst ==
    \/ UpdateMatched
    \/ UpdateMatchedAhead
    \/ ClientWrite

SpecBurst == Init /\ [][NextBurst]_vars

\* The unit tests of snapshot_is_within_half_of_threshold, beside a leader
\* that handles nothing.
InitTests == Init /\ last_log_id = LogId(0, 0)

NextTests == test_snapshot_is_within_half_of_threshold

SpecTests == InitTests /\ [][NextTests]_vars

\* ================================================================== claims
\* The greatest majority value of the current-term match map in this state.
MajorityNow ==
    greatest_majority_value(
        membership,
        get_match_log_indexes(nodes, membership, last_log_id, current_term))

\* The last step handled an UpdateMatched of a known peer to its end or to
\* the early return.
HandledUpdateMatched ==
    /\ ev.type = "UpdateMatched"
    /\ res = "Ok"
    /\ ev.target \in DOMAIN nodes

\* C1: commit_index is non-decreasing over every sequence of replica events
\* (UpdateMatched, RevertToFollower, NeedsSnapshot, Shutdown): no step
\* assigns it a smaller value, also when the commit calculation yields a
\* smaller or an undefined majority value.
C1_CommitIndexNonDecreasing == [][commit_index' >= commit_index]_vars

\* C1 witness: an UpdateMatched went through the commit calculation (it was
\* past the early return) while the majority value of the current-term
\* match map was smaller than commit_index.
C1_Witness ==
    /\ HandledUpdateMatched
    /\ ~returns_before_commit(ev.matched, commit_index)
    /\ MajorityNow # None
    /\ MajorityNow[1] < commit_index

\* The candidate LogId of a member: the leader's last_log_id, a known
\* peer's matched, (0,0) for a peer the leader does not replicate to.
Candidate(id) ==
    IF id = LeaderId THEN last_log_id
    ELSE IF id \in DOMAIN nodes THEN nodes[id].matched
    ELSE LogId(0, 0)

\* The members of config whose candidate LogId is of the current term with
\* an index >= v.
CurrentTermAtLeast(config, v) ==
    {id \in config : Candidate(id).term = current_term /\ Candidate(id).index >= v}

\* A strict majority of config holds a current-term match >= v.
QuorumAt(config, v) ==
    2 * Cardinality(CurrentTermAtLeast(config, v)) > Cardinality(config)

\* The last step was an UpdateMatched that advanced commit_index.
Advanced == ev.type = "UpdateMatched" /\ sent # <<>>

\* C2: under a joint membership (C_old, C_new), an UpdateMatched advances
\* commit_index to v only if C_old and C_new each hold a strict majority of
\* members with a current-term match index >= v.
C2_JointQuorum ==
    (Len(membership) = 2 /\ Advanced) =>
        /\ QuorumAt(membership[1], commit_index)
        /\ QuorumAt(membership[2], commit_index)

\* C2 witness: commit_index advanced under the joint membership.
C2_Witness ==
    /\ Len(membership) = 2
    /\ Advanced
    /\ commit_index = ev.matched.index

\* C3: the match map holds exactly the members whose candidate LogId is of
\* the current term, each with its index, members of a prior term being left
\* out; and an UpdateMatched of another term advances commit_index only to
\* a value that current-term matches alone carry by majority.
C3_PriorTermExcluded ==
    LET map == get_match_log_indexes(nodes, membership, last_log_id, current_term)
    IN  /\ DOMAIN map =
               {id \in all_nodes(membership) : Candidate(id).term = current_term}
        /\ \A id \in DOMAIN map : map[id] = Candidate(id).index
        /\ (Advanced /\ ev.matched.term # current_term) =>
               \A k \in DOMAIN membership : QuorumAt(membership[k], commit_index)

\* C3 witness: the leader's last entry is of the current term, a peer
\* reported a prior-term LogId above commit_index, no peer holds a
\* current-term match, and commit_index stayed where it was.
C3_Witness ==
    /\ HandledUpdateMatched
    /\ last_log_id.term = current_term
    /\ ev.matched.term < current_term
    /\ ev.matched.index > commit_index
    /\ \A p \in DOMAIN nodes : nodes[p].matched.term # current_term
    /\ commit_index > 0
    /\ MajorityNow = None

\* a < b in the lexicographic (term, index) order.
LogIdLess(a, b) ==
    a.term < b.term \/ (a.term = b.term /\ a.index < b.index)

\* The step handles an UpdateMatched of a known peer that reports less than
\* the peer's stored matched.
RegressingReport ==
    /\ ev'.type = "UpdateMatched"
    /\ ev'.target \in DOMAIN nodes
    /\ LogIdLess(ev'.matched, nodes[ev'.target].matched)

\* C4: a peer's stored matched never decreases in the lexicographic
\* (term, index) order, and an UpdateMatched that reports less than the
\* stored matched trips the assertion, which is fatal: it stores nothing and
\* the leader handles no event after it.
C4_MatchedMonotonic ==
    [][ /\ \A p \in DOMAIN nodes \cap DOMAIN nodes' :
               ~LogIdLess(nodes'[p].matched, nodes[p].matched)
        /\ RegressingReport => (panicked' /\ res' = "Panic" /\ nodes' = nodes)
        /\ ~panicked ]_vars

\* C4 witness: the assertion fired on a report below the stored matched.
C4_Witness ==
    /\ panicked
    /\ ev.type = "UpdateMatched"
    /\ ev.target \in DOMAIN nodes
    /\ LogIdLess(ev.matched, nodes[ev.target].matched)
    /\ ev.matched.term = nodes[ev.target].matched.term

RevertOfGreaterTerm ==
    ev'.type = "RevertToFollower" /\ ev'.term > current_term

\* C6 as claimed: every RevertToFollower of a greater term sets
\* current_term, clears voted-for, persists the hard state, clears the known
\* leader and makes Follower the target state.
C6_RevertAlwaysStepsDown ==
    [][ RevertOfGreaterTerm =>
            /\ current_term' = ev'.term
            /\ voted_for' = None
            /\ hard_state' = Some(HardState(ev'.term, None))
            /\ current_leader' = None
            /\ target_state' = "Follower" ]_vars

\* C6 amended: a RevertToFollower of a greater term sets current_term and
\* clears voted-for; when the hard state is then saved it is persisted, the
\* known leader cleared and Follower made the target state; when saving
\* fails the handler returns the error with the hard state, the known leader
\* and the Leader role as they were, unless the error is fatal (Shutdown).
\* No event is handled once the target state is not Leader.
C6_RevertStepsDownWhenSaved ==
    [][ /\ RevertOfGreaterTerm =>
               /\ current_term' = ev'.term
               /\ voted_for' = None
               /\ res' = "Ok" =>
                      /\ hard_state' = Some(HardState(ev'.term, None))
                      /\ current_leader' = None
                      /\ target_state' = "Follower"
               /\ res' # "Ok" =>
                      /\ hard_state' = hard_state
                      /\ current_leader' = current_leader
                      /\ target_state' \in {"Leader", "Shutdown"}
        /\ target_state = "Leader" ]_vars

\* C6 witness: the leader stepped down on a greater term, whatever peer
\* reported it.
C6_Witness ==
    /\ ev.type = "RevertToFollower"
    /\ res = "Ok"
    /\ target_state = "Follower"
    /\ current_term = ev.term
    /\ hard_state = Some(HardState(ev.term, None))
    /\ current_leader = None

\* C7: a RevertToFollower whose term is <= current_term is ignored: the
\* term, voted-for, the hard state, the known leader, the role, commit_index
\* and every peer's ReplicationState stay as they were.
C7_RevertIgnored ==
    [][ (ev'.type = "RevertToFollower" /\ ev'.term <= current_term) =>
            /\ res' = "Ok"
            /\ UNCHANGED <<current_term, voted_for, hard_state, current_leader,
                           target_state, commit_index, nodes, last_log_id,
                           awaiting_committed, post_commit, leader_metrics>> ]_vars

\* C7 witness: a RevertToFollower of the leader's own term was handled and
\* the leader is still leader.
C7_Witness ==
    /\ ev.type = "RevertToFollower"
    /\ res = "Ok"
    /\ ev.term = current_term
    /\ target_state = "Leader"
    /\ hard_state = Some(HardState(current_term, Some(LeaderId)))

\* The step is an UpdateMatched that advances commit_index.
Advances == ev'.type = "UpdateMatched" /\ commit_index' > commit_index

\* The requests of seq from position a to its end.
From(seq, a) == SubSeq(seq, a, Len(seq))

\* seq is in strictly ascending order of f.
Ascending(seq, f(_)) ==
    \A i, j \in DOMAIN seq : i < j => f(seq[i]) < f(seq[j])

IndexOf(request) == request.index

\* C8: when an UpdateMatched advances commit_index, exactly the requests at
\* the head of awaiting_committed whose index is <= the new commit_index
\* are removed and handed to client_request_post_commit in queue order: none
\* above commit_index is handed off, none at or below it stays queued; no
\* other step hands anything off, and no request is handed off twice.
C8_DrainOnAdvance ==
    [][ /\ Advances =>
               \E n \in 0..Len(awaiting_committed) :
                   /\ post_commit' = post_commit \o SubSeq(awaiting_committed, 1, n)
                   /\ awaiting_committed' = From(awaiting_committed, n + 1)
                   /\ \A k \in 1..n : awaiting_committed[k].index <= commit_index'
                   /\ \A k \in DOMAIN awaiting_committed' :
                          awaiting_committed'[k].index > commit_index'
        /\ (~Advances) => post_commit' = post_commit
        /\ Ascending(post_commit', IndexOf)
        /\ \A i \in DOMAIN post_commit', j \in DOMAIN awaiting_committed' :
               post_commit'[i] # awaiting_committed'[j] ]_vars

\* C8 witness: an advance handed one request off and left a later one queued.
C8_Witness ==
    /\ Advanced
    /\ post_commit # <<>>
    /\ awaiting_committed # <<>>
    /\ post_commit[Len(post_commit)].index = commit_index
    /\ awaiting_committed[1].index = commit_index + 1

Identity(x) == x

\* C9: when commit_index advances, that handler turn sends one
\* UpdateCommitIndex of the new value to the stream of every peer in nodes; a
\* peer whose stream has ended takes nothing and stops neither the other
\* sends nor the advance; no other step sends one; the commit indexes a
\* peer has received are strictly increasing.
C9_BroadcastOnAdvance ==
    [][ /\ Advances =>
               /\ DOMAIN sent' = DOMAIN nodes'
               /\ \A p \in DOMAIN nodes' :
                      /\ sent'[p] = commit_index'
                      /\ p \in DOMAIN nodes =>
                             nodes'[p].repl_stream.rx =
                                 IF nodes[p].repl_stream.open
                                 THEN Append(nodes[p].repl_stream.rx, commit_index')
                                 ELSE nodes[p].repl_stream.rx
        /\ (~Advances) =>
               /\ sent' = <<>>
               /\ \A p \in DOMAIN nodes \cap DOMAIN nodes' :
                      nodes'[p].repl_stream.rx = nodes[p].repl_stream.rx
        /\ \A p \in DOMAIN nodes' :
               Ascending(nodes'[p].repl_stream.rx, Identity) ]_vars

\* C9 witness: an advance was broadcast although the send to the first peer
\* failed, and the other peer has received two commit indexes in order.
C9_Witness ==
    /\ Advanced
    /\ ~nodes[2].repl_stream.open
    /\ nodes[3].repl_stream.open
    /\ Len(nodes[3].repl_stream.rx) = 2
    /\ nodes[3].repl_stream.rx[2] = commit_index
    /\ Len(nodes[2].repl_stream.rx) < 2

\* The step handles an UpdateMatched of peer p that passes the assertion.
StoresMatched(p) ==
    /\ ev'.type = "UpdateMatched"
    /\ ev'.target = p
    /\ p \in DOMAIN nodes
    /\ res' = "Ok"

\* C10: the pending reply slot of a peer added as a non-voter is resolved
\* with its stored matched by an UpdateMatched of that peer iff the report
\* leaves the peer line-rate, last_log_id.index - matched.index <=
\* line_rate_lag; the slot is then cleared and so resolved at most once; a
\* report that leaves the peer lagging leaves the slot pending and unresolved,
\* and no step resolves a slot that is not pending.
C10_NonVoterResolvedAtLineRate ==
    [][ \A p \in NodeIds \ {LeaderId} :
            /\ (StoresMatched(p) /\ nodes[p].tx # None) =>
                   IF last_log_id.index - ev'.matched.index <= line_rate_lag
                   THEN /\ nonvoter_rx'[p] = Append(nonvoter_rx[p], ev'.matched)
                        /\ p \in DOMAIN nodes' =>
                               /\ nodes'[p].tx = None
                               /\ nodes'[p].matched = ev'.matched
                   ELSE /\ nonvoter_rx'[p] = nonvoter_rx[p]
                        /\ p \in DOMAIN nodes' => nodes'[p].tx # None
            /\ ~(StoresMatched(p) /\ nodes[p].tx # None) =>
                   \/ nonvoter_rx'[p] = nonvoter_rx[p]
                   \/ nonvoter_rx'[p] = <<>>
            /\ Len(nonvoter_rx'[p]) <= 1
            /\ (p \in DOMAIN nodes' /\ nodes'[p].tx # None) =>
                   nonvoter_rx'[p] = <<>> ]_vars

\* C10 witness: a report that leaves the non-voter exactly line_rate_lag
\* behind the leader's last entry resolved its slot with that matched.
C10_Witness ==
    /\ ev.type = "UpdateMatched"
    /\ ev.target = 3
    /\ 3 \in DOMAIN nodes
    /\ nodes[3].tx = None
    /\ nonvoter_rx[3] = <<ev.matched>>
    /\ nodes[3].matched = ev.matched
    /\ last_log_id.index - ev.matched.index = line_rate_lag

\* The step handles a NeedsSnapshot whose fetch of the current snapshot succeeded.
FetchedSnapshot == ev'.type = "NeedsSnapshot" /\ res' = "Ok"

\* The snapshot storage holds is at most threshold / 2 behind the leader's
\* last log index, the subtraction saturating at 0.
FreshSnapshot ==
    /\ current_snapshot # None
    /\ 2 * Max({last_log_id.index - current_snapshot[1], 0}) <= threshold

\* C11: a NeedsSnapshot that finds in storage a snapshot at most
\* threshold / 2 behind last_log_id.index sends that snapshot through the
\* peer's reply and returns with snapshot_state as it was and no log
\* compaction triggered, whether or not a build is in progress.
C11_FreshSnapshotSent ==
    [][ (FetchedSnapshot /\ FreshSnapshot) =>
            /\ reply' = Reply("Sent", current_snapshot)
            /\ UNCHANGED <<snapshot_state, compaction_forced, waiters, builds,
                           current_snapshot>> ]_vars

\* C11 witness: a snapshot exactly threshold / 2 behind the last log index
\* was sent while a build was in progress.
C11_Witness ==
    /\ ev.type = "NeedsSnapshot"
    /\ reply.state = "Sent"
    /\ reply.snapshot = current_snapshot
    /\ last_log_id.index - current_snapshot[1] = threshold \div 2
    /\ snapshot_state # None
    /\ ~compaction_forced

\* The step handles a NeedsSnapshot that finds no snapshot fresh enough to send.
FetchedNoFreshSnapshot == FetchedSnapshot /\ ~FreshSnapshot

\* The step is a detached task dropping the reply it held.
DropsHeldReply == waiters # <<>> /\ waiters' = Tail(waiters)

\* C12: a NeedsSnapshot that finds no fresh snapshot while a build is in
\* progress hands the peer's reply to a detached task subscribed to the
\* build's completion broadcast and returns without waiting: snapshot_state
\* is Snapshotting with the same handle and sender, no compaction is
\* triggered and no build started.  The held reply is never resolved with a
\* snapshot, and is dropped only once the build it subscribed to has
\* signalled or its channel is closed.
C12_ReplyHeldUntilBroadcast ==
    [][ /\ (FetchedNoFreshSnapshot /\ snapshot_state # None) =>
               /\ reply' = Reply("Held", None)
               /\ waiters' = Append(waiters, snapshot_state[1].sender)
               /\ snapshot_state' = snapshot_state
               /\ UNCHANGED <<compaction_forced, builds, current_snapshot>>
        /\ DropsHeldReply =>
               \/ snapshot_state = None
               \/ snapshot_state[1].sender # Head(waiters)
        /\ reply'.state = "Held" => reply'.snapshot = None
        /\ \A k \in DOMAIN waiters' : waiters'[k] \in 1..builds' ]_vars

\* C12 witness: the build a reply was attached to has finished and the
\* detached task has dropped the reply.
C12_Witness ==
    /\ reply = Reply("Held", None)
    /\ waiters = <<>>
    /\ snapshot_state = None
    /\ builds > 0
    /\ ~compaction_forced

\* C18: a NeedsSnapshot that finds no snapshot, or only one more than
\* threshold / 2 behind last_log_id.index, while no build is in progress
\* triggers log compaction with force = true and lets the peer's reply drop;
\* whatever the state, a snapshot sent through a reply is never more than
\* threshold / 2 behind.
C18_StaleSnapshotNotServed ==
    [][ /\ (FetchedNoFreshSnapshot /\ snapshot_state = None) =>
               /\ compaction_forced'
               /\ reply' = Reply("Dropped", None)
               /\ UNCHANGED <<snapshot_state, waiters, current_snapshot, builds>>
        /\ (ev'.type = "NeedsSnapshot" /\ reply'.state = "Sent") =>
               /\ reply'.snapshot = current_snapshot
               /\ FreshSnapshot ]_vars

\* C18 witness: storage held a snapshot more than threshold / 2 behind, the
\* reply was dropped and a compaction forced.
C18_Witness ==
    /\ ev.type = "NeedsSnapshot"
    /\ res = "Ok"
    /\ current_snapshot # None
    /\ last_log_id.index - current_snapshot[1] > threshold \div 2
    /\ last_log_id.index - current_snapshot[1] <= threshold
    /\ snapshot_state = None
    /\ compaction_forced
    /\ reply = Reply("Dropped", None)

\* The step is a replica-event handler returning an error.
HandlerFailed == ev'.type \in {"RevertToFollower", "NeedsSnapshot"} /\ res' = "Err"

\* What a failed event leaves alone: every peer's state, commit_index and
\* the queue of requests awaiting commit.
FailedEventFrame ==
    UNCHANGED <<nodes, commit_index, awaiting_committed, post_commit,
                last_log_id, membership>>

\* C13 as claimed: a handler that returns an error leaves every peer's
\* matched, commit_index and awaiting_committed unchanged, and the leader
\* neither crashes nor stops: it is still the running leader afterwards.
C13_LeaderSurvivesEveryError ==
    [][ HandlerFailed =>
            /\ FailedEventFrame
            /\ ~panicked'
            /\ target_state' = "Leader" ]_vars

\* C13 amended: a handler that returns an error leaves every peer's matched,
\* commit_index and awaiting_committed unchanged and does not crash the
\* leader; the leader stays leader, and goes on handling events, unless the
\* storage error is of the fatal class, which makes Shutdown the target
\* state.  Errors come only from RevertToFollower of a greater term and from
\* NeedsSnapshot.
C13_LeaderSurvivesTransientError ==
    [][ /\ HandlerFailed =>
               /\ FailedEventFrame
               /\ ~panicked'
               /\ target_state' \in {"Leader", "Shutdown"}
               /\ target_state' = "Leader" => Running'
               /\ ev'.type = "RevertToFollower" => ev'.term > current_term
        /\ res' = "Err" => HandlerFailed ]_vars

\* C13 witness: the fetch of a NeedsSnapshot failed (the reply was dropped
\* with no compaction forced), and an UpdateMatched handled after it has
\* advanced commit_index.
C13_Witness ==
    /\ Advanced
    /\ res = "Ok"
    /\ reply = Reply("Dropped", None)
    /\ ~compaction_forced
    /\ target_state = "Leader"

\* The result the claim gives for a call: max(last_log - snapshot_last, 0)
\* <= floor(threshold / 2), which for naturals is 2 * distance <= threshold.
WithinHalf(snapshot_last, last_log, thresh) ==
    2 * Max({last_log - snapshot_last, 0}) <= thresh

\* C14: snapshot_is_within_half_of_threshold(snapshot_last, last_log,
\* threshold) is true iff max(last_log - snapshot_last, 0) <=
\* floor(threshold / 2), also when snapshot_last > last_log; (50, 100, 500)
\* gives true, (1, 500, 100) false and (200, 100, 500) true.
C14_WithinHalfOfThreshold ==
    call # NoCall =>
        /\ call.result = Some(WithinHalf(call.snapshot_last_index,
                                          call.last_log_index, call.threshold))
        /\ call = Call(50, 100, 500, call.result) => call.result = Some(TRUE)
        /\ call = Call(1, 500, 100, call.result) => call.result = Some(FALSE)
        /\ call = Call(200, 100, 500, call.result) => call.result = Some(TRUE)

\* C14 witness: the test guards_against_underflow has run and got true.
C14_Witness == call = Call(200, 100, 500, Some(TRUE))

\* C16: an UpdateMatched whose target is not in nodes is dropped: no peer's
\* state, commit_index, awaiting_committed, leader_metrics.replication or
\* snapshot_state changes, no UpdateCommitIndex is sent and the handler
\* returns success.
C16_UnknownTargetDropped ==
    [][ (ev'.type = "UpdateMatched" /\ ev'.target \notin DOMAIN nodes) =>
            /\ res' = "Ok"
            /\ sent' = <<>>
            /\ UNCHANGED <<nodes, commit_index, awaiting_committed, post_commit,
                           leader_metrics, snapshot_state, nonvoter_rx,
                           last_log_id, panicked, target_state>> ]_vars

\* C16 witness: a report of node 3 was handled after node 3's stream had
\* been dropped from nodes (its earlier reports are still in the metrics).
C16_Witness ==
    /\ ev.type = "UpdateMatched"
    /\ ev.target = 3
    /\ 3 \notin DOMAIN nodes
    /\ 3 \in DOMAIN leader_metrics
    /\ leader_metrics[3] # ev.matched
    /\ res = "Ok"

\* The step handles an UpdateMatched of a known peer that passes the
\* assertion and whose index is not above commit_index.
ReportsCommitted ==
    /\ ev'.type = "UpdateMatched"
    /\ ev'.target \in DOMAIN nodes
    /\ res' = "Ok"
    /\ ev'.matched.index <= commit_index

\* C17: an UpdateMatched of a known peer whose matched.index <=
\* commit_index stores the peer's new matched, and resolves a pending
\* non-voter reply if the peer is line-rate, but returns before the commit
\* calculation: commit_index and awaiting_committed are unchanged and no
\* UpdateCommitIndex is sent.
C17_EarlyReturn ==
    [][ ReportsCommitted =>
            /\ UNCHANGED <<commit_index, awaiting_committed, post_commit>>
            /\ sent' = <<>>
            /\ LET p == ev'.target
               IN  /\ p \in DOMAIN nodes' =>
                          /\ nodes'[p].matched = ev'.matched
                          /\ nodes'[p].repl_stream = nodes[p].repl_stream
                   /\ nonvoter_rx'[p] =
                          IF /\ nodes[p].tx # None
                             /\ last_log_id.index - ev'.matched.index <= line_rate_lag
                          THEN Append(nonvoter_rx[p], ev'.matched)
                          ELSE nonvoter_rx[p] ]_vars

\* C17 witness: a report at commit_index itself was stored and resolved the
\* non-voter's reply, and nothing was sent.
C17_Witness ==
    /\ ev.type = "UpdateMatched"
    /\ ev.target = 3
    /\ 3 \in DOMAIN nodes
    /\ ev.matched.index = commit_index
    /\ commit_index > 0
    /\ nodes[3].matched = ev.matched
    /\ nonvoter_rx[3] = <<ev.matched>>
    /\ sent = <<>>

Committable(v) == \A k \in DOMAIN membership : QuorumAt(membership[k], v)

\* commit_index has advanced under this leader: some peer was sent an
\* UpdateCommitIndex.
HasAdvanced == \E p \in DOMAIN nodes : nodes[p].repl_stream.rx # <<>>

\* C20: with membership, current_term and last_log_id fixed and every
\* reported matched <= last_log_id, the early return on matched.index <=
\* commit_index misses no advance: after every UpdateMatched, commit_index
\* is >= every index committable in the current term, and once commit_index
\* has advanced it is the largest such index.
C20_NoAdvanceMissed ==
    /\ \A p \in DOMAIN nodes : LogIdGE(last_log_id, nodes[p].matched)
    /\ \A v \in 1..MaxIndex : Committable(v) => commit_index >= v
    /\ HasAdvanced => Committable(commit_index)

\* C20 witness: a current-term report at or below commit_index returned
\* early, after an advance, and commit_index is the largest committable index
\* although not the largest index reported.
C20_Witness ==
    /\ HandledUpdateMatched
    /\ sent = <<>>
    /\ ev.matched.term = current_term
    /\ ev.matched.index <= commit_index
    /\ ev.matched.index > 0
    /\ HasAdvanced
    /\ Committable(commit_index)
    /\ ~Committable(commit_index + 1)
    /\ \E p \in DOMAIN nodes : nodes[p].matched.index > commit_index

\* Every UpdateMatched step leaves the state update_matched computes.
UpdateMatchedStepIsFunction ==
    [][ ev'.type = "UpdateMatched" =>
            \E expired \in BOOLEAN :
                LeaderCore' = update_matched(LeaderCore, ev'.target, ev'.matched, expired) ]_vars

\* What C15 compares: commit_index, every peer's matched, and the requests
\* handed off, in their order.
Outcome(core) ==
    [commit_index |-> core.commit_index,
     matched |-> [p \in DOMAIN core.nodes |-> core.nodes[p].matched],
     post_commit |-> core.post_commit]

\* The leader state after peer p's report a and then peer q's report b.
After(p, a, q, b) ==
    update_matched(update_matched(LeaderCore, p, a, FALSE), q, b, FALSE)

\* Every LogId a peer may report: of a term up to MaxTerm and within
\* MaxIndex, one index further, or of the term after MaxTerm.
Reports ==
    LogIds \cup LogIdsAhead \cup {LogId(MaxTerm + 1, i) : i \in 1..MaxIndex}

\* Handled one after the other in either order, peer 2's report a and peer
\* 3's report b leave the same commit_index, the same matched values and
\* the same requests handed off in the same order.
Commute(a, b) == Outcome(After(2, a, 3, b)) = Outcome(After(3, b, 2, a))

====
